---- MODULE Spec2Model ----
(***************************************************************************)
(* falcon2jira: one-way synchronisation of closed CrowdStrike alerts into  *)
(* Jira tickets (src/falcon2jira.py).                                      *)
(*                                                                         *)
(* The program is sequential.  Each remote call is one action whose        *)
(* response is chosen from the outcomes the call site distinguishes        *)
(* (success status, other status, transport exception).  The two remote    *)
(* systems are modelled by the part of their state the program reads back: *)
(* the closed alerts, the tickets' descriptions and statuses, and the      *)
(* tickets' comment streams.                                               *)
(*                                                                         *)
(* Text is a sequence of tokens; a token stands for one character or for   *)
(* one fixed literal piece of a format string.  `in` on Python strings is  *)
(* contiguous-subsequence containment.                                     *)
(***************************************************************************)
EXTENDS Integers, Sequences, FiniteSets, TLC

\* Bounds of the model: invocations in a row, comments of an alert.
MaxRuns == 2
MaxComments == 2

\* The tickets of the project.
Tickets == {"T1", "T2"}
\* Tickets in the order of the search's "ORDER BY created DESC".
TicketsByCreatedDesc == <<"T2", "T1">>

----------------------------------------------------------------------------
\* Python helpers

\* dict.get(key, default)
Get(d, key, default) == IF key \in DOMAIN d THEN d[key] ELSE default

\* sub in s, for strings
Contains(s, sub) ==
  \E p \in 0..(Len(s) - Len(sub)) : SubSeq(s, p + 1, p + Len(sub)) = sub

\* s.split('.')[0]
SplitDot0(s) ==
  IF \E p \in 1..Len(s) : s[p] = "."
  THEN LET first == CHOOSE p \in 1..Len(s) :
                       s[p] = "." /\ \A q \in 1..(p - 1) : s[q] # "."
       IN SubSeq(s, 1, first - 1)
  ELSE s

\* The date-times "%Y-%m-%dT%H:%M:%S" matches, each one token, and their instants.
DateTimes == {"1970-01-01T00:00:01", "1970-01-01T00:00:02"}

\* datetime.strptime(...).replace(tzinfo=utc).timestamp()
Instant(tok) == IF tok = "1970-01-01T00:00:01" THEN 1 ELSE 2

parse_timestamp(timestamp_str) ==
  LET head == SplitDot0(timestamp_str)
  IN IF Len(head) = 1 /\ head[1] \in DateTimes THEN Instant(head[1]) ELSE 0

\* datetime.fromtimestamp(t).strftime("%Y-%m-%d %H:%M:%S"); the process runs in UTC.
FormatTime(t) ==
  IF t = 0 THEN <<"1970-01-01 00:00:00">>
  ELSE IF t = 1 THEN <<"1970-01-01 00:00:01">>
  ELSE <<"1970-01-01 00:00:02">>

\* f"Comment from CrowdStrike by {author_email} on {formatted_time}:"
Prefix(author_email, formatted_time) ==
  <<"Comment from CrowdStrike by ">> \o author_email \o <<" on ">>
     \o formatted_time \o <<":">>

\* Text of a structured comment document: every text run of every paragraph,
\* concatenated in document order (the loop building comment_text).
RECURSIVE Concat(_)
Concat(seqs) == IF seqs = <<>> THEN <<>> ELSE Head(seqs) \o Concat(Tail(seqs))

Flatten(body) == Concat([p \in 1..Len(body) |-> Concat(body[p])])

\* A Python dict holding the keys whose option is present: <<>> is "key absent",
\* <<v>> is "key present with value v".
MkDict(opts) == [key \in {x \in DOMAIN opts : opts[x] # <<>>} |-> opts[key][1]]

----------------------------------------------------------------------------
\* Inputs

\* Two date-times of comments.
D1 == "1970-01-01T00:00:01"
D2 == "1970-01-01T00:00:02"

\* Alert comments as the detail call returns them.
FullComment ==
  MkDict([falcon_user_id |-> <<<<"a">>>>, timestamp |-> << <<D1, ".", "0", "Z">> >>,
          value |-> << <<"x">> >>])

\* An alert comment without text.
NoTextComment ==
  MkDict([falcon_user_id |-> <<<<"a">>>>, timestamp |-> << <<D2, ".", "0", "Z">> >>,
          value |-> <<>>])

\* Comments with a fractional, a whole-second, an empty, an absent and an
\* unparseable timestamp, with and without author, with bodies that hold one
\* another.
CommentPool ==
  { FullComment, NoTextComment,
    MkDict([falcon_user_id |-> <<<<"a">>>>, timestamp |-> << <<D1>> >>,
            value |-> << <<"x", "y">> >>]),
    MkDict([falcon_user_id |-> <<<<"a">>>>, timestamp |-> << <<>> >>,
            value |-> << <<"x">> >>]),
    MkDict([falcon_user_id |-> <<<<"a">>>>, timestamp |-> <<>>,
            value |-> << <<"y">> >>]),
    MkDict([falcon_user_id |-> <<>>, timestamp |-> << <<D2, "Z">> >>,
            value |-> << <<"y">> >>]) }

\* The fields sync_comments reads from an alert comment.
Author(comment) == Get(comment, "falcon_user_id", <<"Unknown User">>)
Timestamp(comment) == Get(comment, "timestamp", <<>>)
Text(comment) == Get(comment, "value", <<>>)

\* The prefix sync_comments looks for.
potential_comment(comment) ==
  Prefix(Author(comment),
         IF Timestamp(comment) # <<>>
         THEN FormatTime(parse_timestamp(Timestamp(comment)))
         ELSE <<"Unknown Date">>)

\* Variant: the prefix alone makes a match.
AlreadySyncedByPrefix(existing, comment) ==
  \E e \in existing : Contains(e, potential_comment(comment))

\* The loop over existing_comments that sets skip.
AlreadySynced(existing, comment) ==
  \E e \in existing :
    Contains(e, potential_comment(comment)) /\ Contains(e, Text(comment))

\* add_jira_comment's document: the prefix paragraph and the body paragraph,
\* one text run each.
formatted_comment(comment_text, author_email, timestamp_str) ==
  << <<Prefix(author_email, FormatTime(parse_timestamp(timestamp_str)))>>,
     <<comment_text>> >>

\* The comment document the ticket system holds after add_jira_comment of
\* comment number idx of an alert.  src is the ticket system's record of where
\* the document came from; the program never reads it.
CopyOf(comment, alert_id, idx) ==
  [body |-> formatted_comment(Text(comment), Author(comment), Timestamp(comment)),
   src |-> <<alert_id, idx>>]

RECURSIVE SeqsUpTo(_, _)
SeqsUpTo(S, n) ==
  IF n = 0 THEN {<<>>}
  ELSE LET shorter == SeqsUpTo(S, n - 1)
       IN shorter \cup {Append(q, x) : q \in {r \in shorter : Len(r) = n - 1}, x \in S}

CommentLists == SeqsUpTo(CommentPool, MaxComments)

\* assigned_to_uid of an alert: absent, empty, or a user.
AssigneeOpts == {<<>>, <<"">>, <<"u@example.com">>}

AlertDetail(id, assignee, comments) ==
  MkDict([composite_id |-> <<id>>, assigned_to_uid |-> assignee, comments |-> comments])

NoResult == [statusCode |-> 0, message |-> "running"]
None == "None"

----------------------------------------------------------------------------
VARIABLES
  falcon,             \* alert platform: the closed alerts, newest first
  refs,               \* ticket system: alert ids each ticket's description contains
  open,               \* ticket system: status is "In Progress" or "To Do"
  jira_comments,      \* ticket system: each ticket's comments
  transition_keeps_open,  \* ticket system: the configured transition leads to
                          \* a status the search selects
  run,                \* invocation number
  pc,                 \* position in the invocation
  alerts_data, i,     \* lambda_handler / jira_fetch
  mapped_data, j,     \* units and the unit loops' index
  account_id,         \* change_jira_issue_assignee
  existing_comments, k, synced_count,   \* sync_comments
  result,             \* what lambda_handler returned
  calls,              \* remote calls of this invocation, in order
  failed,             \* a remote call of this invocation failed (status or transport)
  found,              \* number of keys each search of this invocation yielded
  escaped,            \* an exception left the per-call handlers
  prev_synced         \* the previous invocation went through its units and no call failed

world == <<falcon, refs, open, jira_comments, transition_keeps_open>>
locals == <<alerts_data, i, mapped_data, j, account_id, existing_comments, k,
           synced_count>>
vars == <<falcon, refs, open, jira_comments, transition_keeps_open, run, pc,
          alerts_data, i, mapped_data, j, account_id, existing_comments, k,
          synced_count, result, calls, failed, found, escaped, prev_synced>>

Call(op, unit, idx) == [op |-> op, unit |-> unit, idx |-> idx]

InitRun ==
  /\ run = 1 /\ pc = "start"
  /\ alerts_data = <<>> /\ i = 1 /\ mapped_data = <<>> /\ j = 1
  /\ account_id = None /\ existing_comments = {} /\ k = 1 /\ synced_count = 0
  /\ result = NoResult /\ calls = <<>> /\ failed = FALSE /\ found = <<>>
  /\ escaped = FALSE /\ prev_synced = FALSE
  /\ open = [t \in Tickets |-> TRUE]

\* One invocation.  No alert and no ticket naming one, or two alerts, the first
\* with every kind of assignee, with or without comments; tickets whose
\* descriptions name neither, either or both alerts; T1, when it names X1, with
\* or without the copy an earlier invocation made of X1's first comment.  The
\* configured transition closes the ticket.
Init ==
  /\ InitRun
  /\ transition_keeps_open = FALSE
  /\ refs \in [Tickets -> SUBSET {"X1", "X2"}]
  /\ refs["T2"] \subseteq {"X1"}
  /\ \/ /\ falcon = <<>>
        /\ refs = [t \in Tickets |-> {}]
     \/ \E a1 \in AssigneeOpts : \E a2 \in {<<>>, <<"u@example.com">>} :
        \E c1 \in {<<>>, << <<FullComment, NoTextComment>> >>} :
        \E c2 \in {<<>>, << <<FullComment>> >>} :
          falcon = <<AlertDetail("X1", a1, c1), AlertDetail("X2", a2, c2)>>
  /\ \E earlier \in {<<>>, <<CopyOf(FullComment, "X1", 1)>>} :
       /\ earlier # <<>> => "X1" \in refs["T1"] /\ falcon # <<>>
       /\ jira_comments = [t \in Tickets |-> IF t = "T1" THEN earlier ELSE <<>>]

\* Repeated invocations on one alert, unassigned with every list of comments or
\* assigned without comments, its ticket T1, and T2 naming no alert.  The
\* configured transition leaves the ticket in a status the search selects.
RerunInit ==
  /\ InitRun
  /\ transition_keeps_open = TRUE
  /\ \/ \E c1 \in CommentLists : falcon = <<AlertDetail("X1", <<>>, <<c1>>)>>
     \/ falcon = <<AlertDetail("X1", <<"u@example.com">>, <<>>)>>
  /\ refs = [t \in Tickets |-> IF t = "T1" THEN {"X1"} ELSE {}]
  /\ jira_comments = [t \in Tickets |-> <<>>]

----------------------------------------------------------------------------
\* lambda_handler's three returns.

Summary(alerts, issues) ==
  [statusCode |-> 200, message |-> "Synchronization completed successfully",
   alerts_processed |-> Len(alerts), jira_issues_updated |-> Len(issues)]

NothingToDo == [statusCode |-> 200, message |-> "No alerts found to process"]

Failure == [statusCode |-> 500, message |-> "Error during synchronization"]

\* falcon_fetch's alert_data: one dict per alert detail, with the defaults.
AlertData(details) ==
  [n \in 1..Len(details) |->
     [alert_id |-> Get(details[n], "composite_id", "N/A"),
      assignee_email |-> Get(details[n], "assigned_to_uid", "Unassigned"),
      comments |-> Get(details[n], "comments", <<>>)]]

\* lambda_handler up to the first search: falcon_fetch and the branch on its result.
FalconFetch ==
  /\ pc = "start"
  /\ \E outcome \in {"ok", "no_details", "exception"} :
       LET fetched == IF outcome = "ok" THEN AlertData(falcon) ELSE <<>>
       IN /\ alerts_data' = fetched
          /\ failed' = (failed \/ outcome = "exception")
          /\ IF fetched = <<>>
             THEN pc' = "done" /\ result' = NothingToDo
             ELSE pc' = "search" /\ result' = result
  /\ UNCHANGED <<world, run, i, mapped_data, j, account_id, existing_comments, k,
                 synced_count, calls, found, escaped, prev_synced>>

\* The search's answer: open tickets whose description contains the alert id.
IssueKeys(alert_id) ==
  SelectSeq(TicketsByCreatedDesc, LAMBDA t : open[t] /\ alert_id \in refs[t])

\* Variant: an alert without tickets still contributes a unit, without a key.
UnitsEvenWithoutKeys(alert, issue_keys) ==
  [n \in 1..(IF issue_keys = <<>> THEN 1 ELSE Len(issue_keys)) |->
     [issue_key |-> IF issue_keys = <<>> THEN "T1" ELSE issue_keys[n],
      assignee_email |-> alert.assignee_email,
      comments |-> alert.comments, alert_id |-> alert.alert_id]]

\* The units one alert contributes to mapped_data.
Units(alert, issue_keys) ==
  [n \in 1..Len(issue_keys) |->
     [issue_key |-> issue_keys[n], assignee_email |-> alert.assignee_email,
      comments |-> alert.comments, alert_id |-> alert.alert_id]]

\* jira_fetch: one pass of the loop over alerts; after the last alert, the
\* branch on mapped_data and, when it is empty, the return through lambda_handler.
JiraSearch ==
  /\ pc = "search"
  /\ \E outcome \in {"200", "status", "exception"} :
       LET alert == alerts_data[i]
           issue_keys == IF outcome = "200" THEN IssueKeys(alert.alert_id) ELSE <<>>
           mapped == mapped_data \o Units(alert, issue_keys)
       IN /\ mapped_data' = mapped
          /\ calls' = Append(calls, Call("search", i, 0))
          /\ found' = Append(found, Len(issue_keys))
          /\ failed' = (failed \/ outcome # "200")
          /\ IF i < Len(alerts_data)
             THEN i' = i + 1 /\ pc' = "search" /\ result' = result
             ELSE /\ i' = i
                  /\ IF mapped = <<>>
                     THEN pc' = "done" /\ result' = Summary(alerts_data, mapped)
                     ELSE pc' = "assignee" /\ result' = result
  /\ j' = 1
  /\ UNCHANGED <<world, run, alerts_data, account_id, existing_comments, k,
                 synced_count, escaped, prev_synced>>

\* Variant: change_jira_status returns after the assignee loop.
NextAssigneeThenSync ==
  IF j < Len(mapped_data) THEN j' = j + 1 /\ pc' = "assignee"
  ELSE j' = 1 /\ pc' = "sync"

\* change_jira_issue_assignee's loop moves to the next unit; after the last
\* one change_jira_status goes on to its transition loop.
NextAssignee ==
  IF j < Len(mapped_data) THEN j' = j + 1 /\ pc' = "assignee"
  ELSE j' = 1 /\ pc' = "transition"

\* Variant: only the sentinel is tested, an empty value is looked up.
UnassignedSentinelOnly(assignee_email) == assignee_email = "Unassigned"

\* find_jira_account_id's first test.
Unassigned(assignee_email) == assignee_email = "" \/ assignee_email = "Unassigned"

\* find_jira_account_id returns None at once; the loop continues.
AssigneeSkip ==
  /\ pc = "assignee"
  /\ Unassigned(mapped_data[j].assignee_email)
  /\ account_id' = None
  /\ NextAssignee
  /\ UNCHANGED <<world, run, alerts_data, i, mapped_data, existing_comments, k,
                 synced_count, result, calls, failed, found, escaped, prev_synced>>

\* find_jira_account_id's directory lookup.  The call's record tells (idx 1)
\* whether it yielded an account.
DirectoryLookup ==
  /\ pc = "assignee"
  /\ ~Unassigned(mapped_data[j].assignee_email)
  /\ \E outcome \in {"200_match", "200_empty", "status", "exception"} :
       /\ account_id' = IF outcome = "200_match" THEN "account-1" ELSE None
       /\ failed' = (failed \/ outcome \in {"status", "exception"})
       /\ IF outcome = "200_match" THEN pc' = "put" /\ j' = j ELSE NextAssignee
       /\ calls' = Append(calls, Call("lookup", j,
                                      IF outcome = "200_match" THEN 1 ELSE 0))
  /\ UNCHANGED <<world, run, alerts_data, i, mapped_data, existing_comments, k,
                 synced_count, result, found, escaped, prev_synced>>

\* Variant: the try is around the loop, a failed PUT ends it.
AfterPutLeaveLoop(outcome) ==
  IF outcome = "204" THEN NextAssignee ELSE j' = 1 /\ pc' = "transition"

\* A PUT that fails by status or by exception, inside the loop's try, is logged.
AfterPut(outcome) == NextAssignee

\* The assignee PUT of change_jira_issue_assignee.
AssigneePut ==
  /\ pc = "put"
  /\ \E outcome \in {"204", "status", "exception"} :
       /\ failed' = (failed \/ outcome # "204")
       /\ AfterPut(outcome)
  /\ calls' = Append(calls, Call("put", j, 0))
  /\ UNCHANGED <<world, run, alerts_data, i, mapped_data, account_id,
                 existing_comments, k, synced_count, result, found, escaped, prev_synced>>

\* change_jira_status: the transition POST of one unit.  A 204 moves the ticket
\* through the configured transition, which may or may not leave it in a status
\* the search selects.
TransitionPost ==
  /\ pc = "transition"
  /\ \E outcome \in {"204", "status", "exception"} :
       /\ failed' = (failed \/ outcome # "204")
       /\ open' = IF outcome = "204"
                  THEN [open EXCEPT ![mapped_data[j].issue_key] =
                                       @ /\ transition_keeps_open]
                  ELSE open
  /\ calls' = Append(calls, Call("transition", j, 0))
  /\ IF j < Len(mapped_data) THEN j' = j + 1 /\ pc' = "transition"
     ELSE j' = 1 /\ pc' = "sync"
  /\ UNCHANGED <<falcon, refs, jira_comments, transition_keeps_open, run,
                 alerts_data, i, mapped_data, account_id, existing_comments, k,
                 synced_count, result, found,
                 escaped, prev_synced>>

----------------------------------------------------------------------------
\* sync_comments

\* existing_comments as sync_comments builds it from the fetched comments.
ExistingSet(fetched) == {Flatten(fetched[n].body) : n \in 1..Len(fetched)}

\* The loop over units moves on; after the last unit sync_comments, jira_fetch
\* and lambda_handler return.
NextUnit ==
  IF j < Len(mapped_data)
  THEN j' = j + 1 /\ pc' = "sync" /\ result' = result
  ELSE j' = j /\ pc' = "done" /\ result' = Summary(alerts_data, mapped_data)

\* The unit has no comments: continue.
SyncNoComments ==
  /\ pc = "sync"
  /\ mapped_data[j].comments = <<>>
  /\ NextUnit
  /\ UNCHANGED <<world, run, alerts_data, i, mapped_data, account_id,
                 existing_comments, k, synced_count, calls, failed, found, escaped,
                 prev_synced>>

\* get_jira_comments and the flattening loop.  A 200 whose comments are not
\* the documents the loop expects raises in the loop, outside any handler.
CommentGet ==
  /\ pc = "sync"
  /\ mapped_data[j].comments # <<>>
  /\ \E outcome \in {"200", "200_malformed", "status", "exception"} :
       /\ existing_comments' =
            IF outcome = "200"
            THEN ExistingSet(jira_comments[mapped_data[j].issue_key]) ELSE {}
       /\ failed' = (failed \/ outcome \in {"status", "exception"})
       /\ escaped' = (outcome = "200_malformed")
       /\ pc' = IF outcome = "200_malformed" THEN "raise" ELSE "comment"
  /\ calls' = Append(calls, Call("comment_get", j, 0))
  /\ k' = 1 /\ synced_count' = 0
  /\ UNCHANGED <<world, run, alerts_data, i, mapped_data, j, account_id, result,
                 found, prev_synced>>

\* An alert comment with no text: continue.
CommentSkipEmpty ==
  /\ pc = "comment" /\ k <= Len(mapped_data[j].comments)
  /\ Text(mapped_data[j].comments[k]) = <<>>
  /\ k' = k + 1
  /\ UNCHANGED <<world, run, pc, alerts_data, i, mapped_data, j, account_id,
                 existing_comments, synced_count, result, calls, failed, found,
                 escaped, prev_synced>>

\* An alert comment the existing set matches: continue.
CommentSkipExisting ==
  /\ pc = "comment" /\ k <= Len(mapped_data[j].comments)
  /\ Text(mapped_data[j].comments[k]) # <<>>
  /\ AlreadySynced(existing_comments, mapped_data[j].comments[k])
  /\ k' = k + 1
  /\ UNCHANGED <<world, run, pc, alerts_data, i, mapped_data, j, account_id,
                 existing_comments, synced_count, result, calls, failed, found,
                 escaped, prev_synced>>

\* add_jira_comment for an alert comment the existing set does not match.
CommentPost ==
  /\ pc = "comment" /\ k <= Len(mapped_data[j].comments)
  /\ Text(mapped_data[j].comments[k]) # <<>>
  /\ ~AlreadySynced(existing_comments, mapped_data[j].comments[k])
  /\ LET item == mapped_data[j]
         doc == CopyOf(item.comments[k], item.alert_id, k)
     IN \E outcome \in {"201", "status", "exception"} :
          /\ jira_comments' =
               IF outcome = "201"
               THEN [jira_comments EXCEPT ![item.issue_key] = Append(@, doc)]
               ELSE jira_comments
          /\ synced_count' = IF outcome = "201" THEN synced_count + 1 ELSE synced_count
          /\ failed' = (failed \/ outcome # "201")
  /\ calls' = Append(calls, Call("comment_post", j, k))
  /\ k' = k + 1
  /\ UNCHANGED <<falcon, refs, open, transition_keeps_open, run, pc, alerts_data,
                 i, mapped_data, j, account_id, existing_comments, result, found,
                 escaped, prev_synced>>

\* The unit's comments are done: the "Synced n new comments" line.
SyncedLog ==
  /\ pc = "comment" /\ k > Len(mapped_data[j].comments)
  /\ NextUnit
  /\ UNCHANGED <<world, run, alerts_data, i, mapped_data, account_id,
                 existing_comments, k, synced_count, calls, failed, found, escaped,
                 prev_synced>>

\* Variant: the except clause logs and raises again.
TopLevelReraise ==
  /\ pc = "raise"
  /\ pc' = "crashed"
  /\ UNCHANGED <<world, run, locals, result, calls, failed, found, escaped, prev_synced>>

\* lambda_handler's except clause.
TopLevelCatch ==
  /\ pc = "raise"
  /\ pc' = "done" /\ result' = Failure
  /\ UNCHANGED <<world, run, locals, calls, failed, found, escaped, prev_synced>>

\* The next scheduled invocation: a new process state, the same remote systems.
NextInvocation ==
  /\ pc = "done" /\ run < MaxRuns
  /\ run' = run + 1 /\ pc' = "start"
  /\ prev_synced' = (~failed /\ ~escaped /\ mapped_data # <<>>)
  /\ alerts_data' = <<>> /\ i' = 1 /\ mapped_data' = <<>> /\ j' = 1
  /\ account_id' = None /\ existing_comments' = {} /\ k' = 1 /\ synced_count' = 0
  /\ result' = NoResult /\ calls' = <<>> /\ failed' = FALSE /\ found' = <<>>
  /\ escaped' = FALSE
  /\ UNCHANGED world

\* One invocation.
Next ==
  \/ FalconFetch \/ JiraSearch
  \/ AssigneeSkip \/ DirectoryLookup \/ AssigneePut \/ TransitionPost
  \/ SyncNoComments \/ CommentGet
  \/ CommentSkipEmpty \/ CommentSkipExisting \/ CommentPost \/ SyncedLog
  \/ TopLevelCatch

Spec == Init /\ [][Next]_vars

\* The invocation is a sequential program: it takes its next step.
FairSpec == Spec /\ WF_vars(Next)

\* Invocation after invocation.
RerunNext == Next \/ NextInvocation

RerunSpec == RerunInit /\ [][RerunNext]_vars

----------------------------------------------------------------------------
\* Reading the record of calls

UnitIds == 1..Len(mapped_data)

\* How many times a call was issued.
NumCalls(op, unit, idx) ==
  Cardinality({p \in DOMAIN calls : calls[p] = Call(op, unit, idx)})

\* Position of a unit's alert in alerts_data.
AlertIndex(unit) ==
  CHOOSE n \in 1..Len(alerts_data) : alerts_data[n].alert_id = mapped_data[unit].alert_id

Finished == pc = "done" /\ result.statusCode = 200 /\ mapped_data # <<>>

AssigneeOps == {"lookup", "put"}
CommentOps == {"comment_get", "comment_post"}

----------------------------------------------------------------------------
\* C9: the units built by the ticket finder never hold the same ticket key twice.
C9_UnitsHaveDistinctTickets ==
  \A u, v \in UnitIds : u # v => mapped_data[u].issue_key # mapped_data[v].issue_key

\* C5: on a successful run with at least one fetched alert, the summary counts
\* the fetched alerts and the distinct tickets operated on.
C5_SummaryCountsDistinctTickets ==
  (pc = "done" /\ result.statusCode = 200 /\ alerts_data # <<>>) =>
     /\ result.alerts_processed = Len(alerts_data)
     /\ result.jira_issues_updated =
          Cardinality({mapped_data[u].issue_key : u \in UnitIds})

\* C6: no directory lookup, assignee PUT, transition POST, comment GET or
\* comment POST is issued for an alert whose search yielded no key, and every
\* alert whose search yielded keys has its tickets processed.
C6_NoCallsWithoutTicket ==
  /\ \A p \in DOMAIN calls :
       calls[p].op # "search" => found[AlertIndex(calls[p].unit)] > 0
  /\ Finished =>
       \A n \in 1..Len(alerts_data) :
         found[n] > 0 =>
           \E u \in UnitIds : AlertIndex(u) = n /\ NumCalls("transition", u, 0) = 1

C6_Witness ==
  /\ Finished
  /\ found = <<0, 1>>
  /\ "X1" \in refs["T1"]
  /\ \E p \in DOMAIN calls : calls[p].op = "comment_post"

\* C7: a unit whose alert has no assignee, an empty one or the unassigned
\* sentinel gets no directory lookup and no assignee PUT.
C7_NoLookupWhenUnassigned ==
  /\ \A u \in UnitIds :
       LET detail == falcon[AlertIndex(u)]
       IN ("assigned_to_uid" \notin DOMAIN detail
             \/ detail["assigned_to_uid"] \in {"", "Unassigned"}) =>
            \A p \in DOMAIN calls :
              calls[p].unit = u => calls[p].op \notin AssigneeOps
  /\ pc = "put" => mapped_data[j].assignee_email \notin {"", "Unassigned"}

C7_Witness ==
  /\ Finished
  /\ \E u, v \in UnitIds :
       /\ mapped_data[u].assignee_email = ""
       /\ mapped_data[v].assignee_email = "Unassigned"
       /\ NumCalls("transition", u, 0) = 1 /\ NumCalls("transition", v, 0) = 1

\* C10: a unit's assignee calls precede its transition POST, every unit gets
\* exactly one transition POST, every assignee and transition call precedes the
\* first comment call, and the searches precede them all.
C10_CallOrder ==
  /\ \A p, q \in DOMAIN calls :
       /\ (calls[p].op \in AssigneeOps /\ calls[q].op = "transition"
             /\ calls[p].unit = calls[q].unit) => p < q
       /\ (calls[p].op \in AssigneeOps \cup {"transition"}
             /\ calls[q].op \in CommentOps) => p < q
       /\ (calls[p].op = "search" /\ calls[q].op # "search") => p < q
  /\ \A u \in UnitIds : NumCalls("transition", u, 0) <= 1
  /\ (pc \in {"sync", "comment", "raise"} \/ (pc = "done" /\ mapped_data # <<>>)) =>
       \A u \in UnitIds : NumCalls("transition", u, 0) = 1

C10_Witness ==
  /\ Finished
  /\ Len(mapped_data) >= 2
  /\ \E u, v \in UnitIds :
       /\ NumCalls("put", u, 0) = 1
       /\ NumCalls("lookup", v, 0) = 1
       /\ NumCalls("comment_get", u, 0) = 1

\* C3: whatever calls failed, no call is issued twice, and when the run ends
\* every unit has had its directory lookup (unless unassigned), its assignee
\* PUT exactly when the lookup yielded an account, its one transition POST, its
\* comment GET (when it has comments) and a comment POST for each comment with
\* text that its ticket does not show as synced.
C3_MutationsAttemptedDespiteFailures ==
  /\ \A p, q \in DOMAIN calls : calls[p] = calls[q] => p = q
  /\ Finished =>
       \A u \in UnitIds :
         LET item == mapped_data[u]
             onTicket == ExistingSet(jira_comments[item.issue_key])
         IN /\ NumCalls("transition", u, 0) = 1
            /\ item.assignee_email \notin {"", "Unassigned"} =>
                 NumCalls("lookup", u, 0) + NumCalls("lookup", u, 1) = 1
            /\ NumCalls("put", u, 0) = NumCalls("lookup", u, 1)
            /\ NumCalls("comment_get", u, 0) = IF item.comments = <<>> THEN 0 ELSE 1
            /\ \A n \in 1..Len(item.comments) :
                 LET c == item.comments[n]
                 IN /\ NumCalls("comment_post", u, n) <= 1
                    /\ (Text(c) # <<>> /\ ~AlreadySynced(onTicket, c)) =>
                         NumCalls("comment_post", u, n) = 1

\* A run in which the transition of the first unit failed (its ticket is still
\* open), a comment POST failed (its document is not on the ticket), and the
\* later units still had their PUT, transition and comment POST.
C3_Witness ==
  /\ Finished /\ failed
  /\ Len(mapped_data) >= 2
  /\ mapped_data[1].issue_key # mapped_data[2].issue_key
  /\ open[mapped_data[1].issue_key]
  /\ NumCalls("put", 2, 0) = 1
  /\ NumCalls("transition", 2, 0) = 1
  /\ NumCalls("comment_post", 1, 1) = 1
  /\ jira_comments[mapped_data[1].issue_key] = <<>>
  /\ NumCalls("comment_post", 2, 1) = 1

\* C4: the invocation ends, with status 500 exactly when an exception left the
\* per-call handlers and 200 otherwise: "nothing to do" when no alert was
\* fetched, the summary otherwise.
C4_AlwaysReturns ==
  /\ [](pc \in {"start", "search", "assignee", "put", "transition", "sync",
                "comment", "raise", "done"})
  /\ [](pc = "done" =>
          /\ escaped => result = Failure
          /\ (~escaped /\ alerts_data = <<>>) => result = NothingToDo
          /\ (~escaped /\ alerts_data # <<>>) =>
               result.statusCode = 200 /\ result.alerts_processed = Len(alerts_data))
  /\ [](pc # "done" => result = NoResult)
  /\ <>(pc = "done")

\* A run that ended in the top-level catch after calls had failed softly.
C4_Witness ==
  pc = "done" /\ escaped /\ failed /\ result.statusCode = 500

\* The prefix the synchronizer searches for: the formatted time is that of the
\* parsed timestamp, epoch zero when it does not parse, and the words
\* "Unknown Date" when the comment has no timestamp or an empty one.
SearchedPrefix(c) ==
  <<"Comment from CrowdStrike by ">>
    \o (IF "falcon_user_id" \in DOMAIN c THEN c["falcon_user_id"] ELSE <<"Unknown User">>)
    \o <<" on ">>
    \o (IF "timestamp" \in DOMAIN c /\ c["timestamp"] # <<>>
        THEN FormatTime(parse_timestamp(c["timestamp"]))
        ELSE <<"Unknown Date">>)
    \o <<":">>

\* One fetched comment text holds both the prefix and the body.
OneTextHoldsBoth(c) ==
  \E e \in existing_comments : Contains(e, SearchedPrefix(c)) /\ Contains(e, c["value"])

C1_SecondRunCreatesNothing ==
  (run >= 2 /\ prev_synced /\ ~failed /\ ~escaped) =>
     \A p \in DOMAIN calls : calls[p].op # "comment_post"

\* C2: a ticket never holds two copies of the same alert comment.
C2_AtMostOneCopy ==
  \A t \in Tickets :
    \A p, q \in DOMAIN jira_comments[t] :
      jira_comments[t][p].src = jira_comments[t][q].src => p = q

====
